---- MODULE Spec2Model ----
(***************************************************************************)
(* Header synchronisation of libbitcoin-node: the protocol that drives one *)
(* peer channel (protocol_header_sync.cpp) over the hash list it shares    *)
(* with the attempts on earlier and later peers; and the session that      *)
(* redials peers for block synchronisation (session_block_sync.cpp).       *)
(***************************************************************************)
EXTENDS Integers, Sequences, FiniteSets, TLC

VARIABLES
    hashes_,          \* hash_list& hashes_: the shared ordered list of header hashes
    checkpoints_,     \* const checkpoint::list& checkpoints_, ascending by height
    first_height_,    \* height of hashes_[0]
    minimum_rate_,    \* hashes per second below which the channel is dropped
    start_size_,      \* hashes_.size() when the protocol was constructed
    target_height_,   \* target(first_height, hashes, checkpoints) at construction
    current_second_,  \* ticks counted by handle_event
    start_height,     \* peer_version().start_height of the attached channel
    phase,            \* "idle" (no protocol attached), "attached", "started"
    stopped,          \* stopped() of the channel
    cleared,          \* the synchronize(..., 1, ...) wrapper has fired
    handled,          \* codes passed to the session's handler by this attempt
    timer,            \* "off" or "armed": the protocol_timer
    stop_event,       \* the stop subscription of protocol_timer::start has yet to fire
    subscriptions,    \* outstanding SUBSCRIBE3(headers, handle_receive, ...)
    sends,            \* outstanding SEND2(packet, handle_send, ...)
    requests,         \* locators of the get_headers packets sent by this attempt
    attempts,         \* protocols constructed so far on the shared list
    peer_sizes,       \* the numbers of headers the peers put in one message
    op,               \* the handler that ran last, with its inputs and outcome
    votes_,           \* session_block_sync::votes_
    quorum,           \* configuration_.node.quorum
    session,          \* "new", "starting" (start called), "started" (handle_started ran) or "failed"
    session_stopped,  \* stopped() of the session
    fetching,         \* fetch_address calls whose start_syncing has yet to run
    connecting,       \* connect calls whose handle_connect has yet to run
    registering,      \* register_channel calls whose handle_channel_start has yet to run
    syncing,          \* block-sync protocols whose handle_complete has yet to run
    fetched,          \* fetch_address calls made so far
    connected,        \* connect calls made so far
    succeeded,        \* handle_complete calls with success so far
    result            \* codes passed to the result handler of the session

vars == <<hashes_, checkpoints_, first_height_, minimum_rate_, start_size_,
          target_height_, current_second_, start_height, phase, stopped,
          cleared, handled, timer, stop_event, subscriptions, sends,
          requests, attempts, peer_sizes, op, votes_, quorum, session,
          session_stopped, fetching, connecting, registering, syncing,
          fetched, connected, succeeded, result>>

header_sync == <<hashes_, checkpoints_, first_height_, minimum_rate_,
                 start_size_, target_height_, current_second_, start_height,
                 phase, stopped, cleared, handled, timer, stop_event,
                 subscriptions, sends, requests, attempts, peer_sizes>>

block_sync == <<votes_, quorum, session, session_stopped, fetching,
                connecting, registering, syncing, fetched, connected,
                succeeded, result>>

----------------------------------------------------------------------------
(* Program constants. *)

full_headers == 2000

null_hash == 0

----------------------------------------------------------------------------
(* Bounds of the model. *)

MaxHashes == 2004

MaxSecond == 2

MaxAttempts == 2

MaxShort == 2

MaxList == 3

MaxQuorum == 2

MaxDials == 4

----------------------------------------------------------------------------
(* Headers.  A header carries previous_block_hash; block.hash() is the     *)
(* digest of its content, carried here as the field hash.  The headers the *)
(* peers can send are those of two chains that fork right after the seed:  *)
(* distinct headers have distinct digests and no digest is its own         *)
(* ancestor.                                                               *)

Branches == {0, 1}

Digest(h, b) == 2 * h + b + 1

Header(h, b, first) ==
    [hash |-> Digest(h, b),
     previous_block_hash |->
        IF h = 0 THEN null_hash
        ELSE IF h - 1 <= first THEN Digest(h - 1, 0) ELSE Digest(h - 1, b)]

Run(b, s, n, first) == [i \in 1..n |-> Header(s + i - 1, b, first)]

HashOf(block) == block.hash

Checkpoint(h, x) == [height |-> h, hash |-> x]

Max(a, b) == IF a >= b THEN a ELSE b

Last(s) == s[Len(s)]

IsPrefix(s, t) == Len(s) <= Len(t) /\ SubSeq(t, 1, Len(s)) = s

----------------------------------------------------------------------------
(* config::checkpoint::validate: no checkpoint at that height carries a    *)
(* different hash.                                                         *)
validate(hash, height, checks) ==
    \A i \in 1..Len(checks) :
        ~(height = checks[i].height /\ hash /= checks[i].hash)

(* variant: the last checkpoint alone when there is one *)
target_last_checkpoint(first_height, headers, checkpoints) ==
    LET current_block == first_height + Len(headers) - 1
    IN  IF checkpoints = <<>> THEN current_block
        ELSE Last(checkpoints).height

(* protocol_header_sync::target *)
target(first_height, headers, checkpoints) ==
    LET current_block == first_height + Len(headers) - 1
    IN  IF checkpoints = <<>> THEN current_block
        ELSE Max(Last(checkpoints).height, current_block)

(* protocol_header_sync::next_height *)
next_height(hashes, first_height) == Len(hashes) + first_height

(* std::find over hashes_: the first position holding x, Len + 1 for end() *)
find(hashes, x) ==
    IF \E i \in 1..Len(hashes) : hashes[i] = x
    THEN CHOOSE i \in 1..Len(hashes) :
            hashes[i] = x /\ \A j \in 1..(i - 1) : hashes[j] /= x
    ELSE Len(hashes) + 1

(* variant: clears the list *)
resize1_clear(hashes) == <<>>

(* hashes_.resize(1) *)
resize1(hashes) == IF hashes = <<>> THEN <<null_hash>> ELSE SubSeq(hashes, 1, 1)

(* variant: erases from the match on, not from the element after it *)
RECURSIVE rollback_from_match(_, _, _)
rollback_from_match(hashes, checkpoints, k) ==
    IF k = 0 THEN resize1(hashes)
    ELSE LET match == find(hashes, checkpoints[k].hash)
         IN  IF match /= Len(hashes) + 1
             THEN SubSeq(hashes, 1, match - 1)
             ELSE rollback_from_match(hashes, checkpoints, k - 1)

(* the reverse loop of rollback over checkpoints_[1..k] *)
RECURSIVE rollback_from(_, _, _)
rollback_from(hashes, checkpoints, k) ==
    IF k = 0 THEN resize1(hashes)
    ELSE LET match == find(hashes, checkpoints[k].hash)
         IN  IF match /= Len(hashes) + 1
             THEN SubSeq(hashes, 1, match)
             ELSE rollback_from(hashes, checkpoints, k - 1)

(* variant: walks the checkpoints from the lowest height upward *)
RECURSIVE rollback_upward_from(_, _, _)
rollback_upward_from(hashes, checkpoints, k) ==
    IF k > Len(checkpoints) THEN resize1(hashes)
    ELSE LET match == find(hashes, checkpoints[k].hash)
         IN  IF match /= Len(hashes) + 1
             THEN SubSeq(hashes, 1, match)
             ELSE rollback_upward_from(hashes, checkpoints, k + 1)

rollback_upward(hashes, checkpoints) ==
    rollback_upward_from(hashes, checkpoints, 1)

(* variant: leaves the list as it is *)
rollback_nothing(hashes, checkpoints) == hashes

(* protocol_header_sync::rollback *)
rollback(hashes, checkpoints) ==
    rollback_from(hashes, checkpoints, Len(checkpoints))

(* merge_headers, iteration i of its loop when no earlier iteration        *)
(* failed: hashes_ then holds the old list followed by the hashes of       *)
(* elements 1..i-1, and previous is the last of them.                      *)
previous_at(hashes, elements, i) ==
    IF i = 1 THEN Last(hashes) ELSE HashOf(elements[i - 1])

(* variant: does not validate against the checkpoints *)
merge_fails_at_unchecked(hashes, elements, i, first_height, checkpoints) ==
    elements[i].previous_block_hash /= previous_at(hashes, elements, i)

(* variant: does not compare previous_block_hash *)
merge_fails_at_unlinked(hashes, elements, i, first_height, checkpoints) ==
    ~validate(HashOf(elements[i]),
              next_height(hashes, first_height) + (i - 1), checkpoints)

merge_fails_at(hashes, elements, i, first_height, checkpoints) ==
    LET block == elements[i]
        current == HashOf(block)
    IN  \/ block.previous_block_hash /= previous_at(hashes, elements, i)
        \/ ~validate(current,
                     next_height(hashes, first_height) + (i - 1),
                     checkpoints)

pushed(hashes, elements, n) ==
    hashes \o [j \in 1..n |-> HashOf(elements[j])]

(* variant: rolls back on every exit *)
merge_headers_rolling_back(hashes, elements, first_height, checkpoints) ==
    LET failing == {i \in 1..Len(elements) :
                      merge_fails_at(hashes, elements, i, first_height,
                                     checkpoints)}
        n == IF failing = {} THEN Len(elements)
             ELSE (CHOOSE i \in failing : \A j \in failing : i <= j) - 1
    IN  [ok |-> failing = {},
         hashes |-> rollback(pushed(hashes, elements, n), checkpoints)]

(* protocol_header_sync::merge_headers: the first failing element rolls    *)
(* the list back as it stands at that iteration; otherwise every hash is   *)
(* pushed.                                                                 *)
merge_headers(hashes, elements, first_height, checkpoints) ==
    LET failing == {i \in 1..Len(elements) :
                      merge_fails_at(hashes, elements, i, first_height,
                                     checkpoints)}
    IN  IF failing = {}
        THEN [ok |-> TRUE, hashes |-> pushed(hashes, elements, Len(elements))]
        ELSE LET k == CHOOSE i \in failing : \A j \in failing : i <= j
             IN  [ok |-> FALSE,
                  hashes |-> rollback(pushed(hashes, elements, k - 1),
                                      checkpoints)]

(* A size_t value: 64 bits, written as four 16-bit limbs, the most         *)
(* significant first, so that <<a, b, c, d>> is                            *)
(* a * 2^48 + b * 2^32 + c * 2^16 + d.                                     *)
size_t_limb == 65536

(* a size or count below 2^31 as a size_t *)
size_t(n) == <<0, 0, n \div size_t_limb, n % size_t_limb>>

(* a - b in size_t arithmetic, modulo 2^64, of two sizes below 2^31 *)
size_t_minus(a, b) ==
    IF a >= b
    THEN size_t(a - b)
    ELSE LET under == b - a - 1
         IN  <<size_t_limb - 1, size_t_limb - 1,
               size_t_limb - 1 - (under \div size_t_limb),
               size_t_limb - 1 - (under % size_t_limb)>>

(* the size_t quotient w / d, limb by limb *)
size_t_divide(w, d) ==
    LET n1 == w[1]
        n2 == (n1 % d) * size_t_limb + w[2]
        n3 == (n2 % d) * size_t_limb + w[3]
        n4 == (n3 % d) * size_t_limb + w[4]
    IN  <<n1 \div d, n2 \div d, n3 \div d, n4 \div d>>

(* w < v on size_t values *)
size_t_less(w, v) ==
    \E i \in 1..4 : w[i] < v[i] /\ \A j \in 1..(i - 1) : w[j] = v[j]

(* protocol_header_sync::current_rate: a size_t subtraction, which wraps   *)
(* when the list is shorter than start_size, and a size_t division         *)
current_rate(hashes, start_size, current_second) ==
    size_t_divide(size_t_minus(Len(hashes), start_size), current_second)

success == "success"
channel_stopped == "channel_stopped"
channel_timeout == "channel_timeout"
previous_block_invalid == "previous_block_invalid"
operation_failed == "operation_failed"
bad_stream == "bad_stream"

(* variant: <= *)
below_or_at_target(peer_height, target_height) == peer_height <= target_height

(* start: peer_version().start_height < target_height_ *)
below_target(peer_height, target_height) == peer_height < target_height

(* variant: > *)
is_over_full(elements) == Len(elements) > full_headers

(* handle_receive: message.elements.size() >= full_headers *)
is_full(elements) == Len(elements) >= full_headers

(* variant: >= *)
short_code_at_target(hashes, first_height, target_height) ==
    IF next_height(hashes, first_height) >= target_height
    THEN success ELSE operation_failed

(* handle_receive: the code of a short response *)
short_code(hashes, first_height, target_height) ==
    IF next_height(hashes, first_height) > target_height
    THEN success ELSE operation_failed

(* variant: <= *)
at_or_below_rate(hashes, start_size, current_second, minimum_rate) ==
    ~size_t_less(size_t(minimum_rate),
                 current_rate(hashes, start_size, current_second))

(* handle_event: current_rate() < minimum_rate_ *)
below_rate(hashes, start_size, current_second, minimum_rate) ==
    size_t_less(current_rate(hashes, start_size, current_second),
                size_t(minimum_rate))

----------------------------------------------------------------------------
(* Inputs. *)

FirstHeights == {0, 1}

MinimumRates == {0, 2}

FullRates == {0, 1001}

PeerHeights == {2, 3000}

(* the inputs of rollback taken on its own *)
SomeHashes == 1..3

HashLists == UNION {[1..n -> SomeHashes] : n \in 1..MaxList}

SomeCheckpoints == {Checkpoint(h, x) : h \in 0..2, x \in SomeHashes}

SortedCheckpoints ==
    {<<>>}
    \cup {<<c>> : c \in SomeCheckpoints}
    \cup {<<p[1], p[2]>> :
               p \in {q \in SomeCheckpoints \X SomeCheckpoints :
                         q[1].height <= q[2].height}}

(* checkpoint lists, sorted ascending; each agrees with the seed *)
CheckpointLists ==
    { <<>>,
      <<Checkpoint(0, Digest(0, 0))>>,
      <<Checkpoint(2, Digest(2, 0))>>,
      <<Checkpoint(2, Digest(2, 1))>>,
      <<Checkpoint(1, Digest(1, 0)), Checkpoint(3, Digest(3, 0))>>,
      <<Checkpoint(2, Digest(2, 0)), Checkpoint(3, Digest(2, 0))>> }

ShortSizes == 0..MaxShort

FullSizes == {0, 1, full_headers - 1, full_headers, full_headers + 1}

(* the headers messages a peer may answer with: a run of one chain that    *)
(* starts at or after the requested height, optionally followed by a       *)
(* header of the other chain                                               *)
Messages(hashes, first, sizes) ==
    LET nh == next_height(hashes, first)
        shapes == {p \in Branches \X {nh, nh + 1} \X sizes \X {0, 1} :
                      Len(hashes) + p[3] + p[4] <= MaxHashes}
    IN  { Run(p[1], p[2], p[3], first)
            \o Run(1 - p[1], p[2] + p[3], p[4], first) : p \in shapes }

(* the handler that ran, the code and headers it was given, and whether    *)
(* its merge went through                                                  *)
Op(name, ec, ok, message) ==
    [name |-> name, ec |-> ec, ok |-> ok, message |-> message]

----------------------------------------------------------------------------
(* State machine. *)

(* no protocol attached yet *)
Detached ==
    /\ start_size_ = 1
    /\ target_height_ = 0
    /\ current_second_ = 0
    /\ start_height = 0
    /\ phase = "idle"
    /\ stopped = FALSE
    /\ cleared = FALSE
    /\ handled = <<>>
    /\ timer = "off"
    /\ stop_event = FALSE
    /\ subscriptions = 0
    /\ sends = 0
    /\ requests = <<>>
    /\ attempts = 0

(* no block-sync session started *)
NoSession ==
    /\ votes_ = 0
    /\ quorum = 1
    /\ session = "new"
    /\ session_stopped = FALSE
    /\ fetching = 0
    /\ connecting = 0
    /\ registering = 0
    /\ syncing = 0
    /\ fetched = 0
    /\ connected = 0
    /\ succeeded = 0
    /\ result = <<>>

(* peers that answer with short messages *)
Init ==
    /\ first_height_ \in FirstHeights
    /\ checkpoints_ \in CheckpointLists
    /\ minimum_rate_ \in MinimumRates
    /\ peer_sizes = ShortSizes
    /\ hashes_ = <<Digest(first_height_, 0)>>
    /\ op = Op("init", success, TRUE, <<>>)
    /\ Detached
    /\ NoSession

(* peers that answer with full batches *)
InitFull ==
    /\ first_height_ = 1
    /\ checkpoints_ \in {<<>>, <<Checkpoint(3, Digest(3, 0))>>}
    /\ minimum_rate_ \in FullRates
    /\ peer_sizes = FullSizes
    /\ hashes_ = <<Digest(first_height_, 0)>>
    /\ op = Op("init", success, TRUE, <<>>)
    /\ Detached
    /\ NoSession

(* rollback on its own: any non-empty list, any sorted checkpoint list *)
InitRollback ==
    /\ first_height_ = 0
    /\ checkpoints_ \in SortedCheckpoints
    /\ minimum_rate_ = 0
    /\ peer_sizes = {}
    /\ hashes_ \in HashLists
    /\ op = Op("input", success, TRUE, <<>>)
    /\ Detached
    /\ NoSession

config == <<checkpoints_, first_height_, minimum_rate_, peer_sizes>>

(* variant: does not stop the channel *)
headers_complete_no_stop(ec) ==
    /\ handled' = Append(handled, ec)
    /\ stopped' = stopped

(* protocol_header_sync::headers_complete: the session first, then the     *)
(* channel.                                                                *)
headers_complete(ec) ==
    /\ handled' = Append(handled, ec)
    /\ stopped' = TRUE

(* variant: every call goes through *)
complete_unsynchronized(ec) ==
    /\ cleared' = TRUE
    /\ headers_complete(ec)

(* complete = synchronize(BIND2(headers_complete, _1, handler), 1, NAME):  *)
(* the first call goes through, later ones are dropped.                    *)
complete(ec) ==
    /\ cleared' = TRUE
    /\ IF cleared
       THEN UNCHANGED <<handled, stopped>>
       ELSE headers_complete(ec)

no_complete == UNCHANGED <<cleared, handled, stopped>>

(* channel::stop fires the stop subscription of protocol_timer::start once, *)
(* when the channel goes from running to stopped; pending tells whether an  *)
(* earlier stop event is still to be handled.                               *)
stop_raised(pending) == IF ~stopped /\ stopped' THEN TRUE ELSE pending

(* protocol_header_sync::send_get_headers, with hashes_ as it stands at    *)
(* the call and one subscription already taken by the caller               *)
send_get_headers(hashes, taken) ==
    IF stopped
    THEN /\ requests' = requests
         /\ subscriptions' = subscriptions - taken
         /\ sends' = sends
    ELSE /\ requests' = Append(requests, Last(hashes))
         /\ subscriptions' = subscriptions - taken + 1
         /\ sends' = sends + 1

(* The session attaches the protocol to the channel of its next peer: the  *)
(* constructor of protocol_header_sync.                                    *)
Attach ==
    /\ \/ phase = "idle"
       \/ handled /= <<>> /\ Last(handled) /= success
    /\ attempts < MaxAttempts
    /\ \E peer \in PeerHeights : start_height' = peer
    /\ current_second_' = 0
    /\ start_size_' = Len(hashes_)
    /\ target_height_' = target(first_height_, hashes_, checkpoints_)
    /\ phase' = "attached"
    /\ stopped' = FALSE
    /\ cleared' = FALSE
    /\ handled' = <<>>
    /\ timer' = "off"
    /\ stop_event' = FALSE
    /\ subscriptions' = 0
    /\ sends' = 0
    /\ requests' = <<>>
    /\ attempts' = attempts + 1
    /\ op' = Op("construct", success, TRUE, <<>>)
    /\ UNCHANGED <<block_sync, hashes_, config>>

(* protocol_header_sync::start *)
Start ==
    /\ phase = "attached"
    /\ IF below_target(start_height, target_height_)
       THEN /\ handled' = Append(handled, channel_stopped)
            /\ phase' = "gated"
            /\ UNCHANGED <<timer, requests, subscriptions, sends>>
       ELSE /\ timer' = "armed"
            /\ phase' = "started"
            /\ send_get_headers(hashes_, 0)
            /\ UNCHANGED handled
    /\ op' = Op("start", success, TRUE, <<>>)
    /\ UNCHANGED <<block_sync, hashes_, config, start_size_, target_height_,
                   current_second_, start_height, stopped, cleared,
                   stop_event, attempts>>

(* protocol_header_sync::handle_send *)
HandleSend ==
    /\ sends > 0
    /\ sends' = sends - 1
    /\ \E ec \in {success, bad_stream} :
        /\ IF stopped THEN no_complete
           ELSE IF ec /= success THEN complete(ec)
           ELSE no_complete
        /\ op' = Op("handle_send", ec, TRUE, <<>>)
    /\ timer' = timer
    /\ stop_event' = stop_raised(stop_event)
    /\ UNCHANGED <<block_sync, hashes_, config, start_size_, target_height_,
                   current_second_, start_height, phase, subscriptions,
                   requests, attempts>>

(* protocol_header_sync::handle_receive *)
HandleReceive ==
    /\ subscriptions > 0
    /\ \E ec \in {success, bad_stream} :
       \E message \in (IF stopped \/ ec /= success THEN {<<>>}
                       ELSE Messages(hashes_, first_height_, peer_sizes)) :
        IF stopped
        THEN /\ no_complete
             /\ subscriptions' = subscriptions - 1
             /\ op' = Op("handle_receive", ec, TRUE, message)
             /\ UNCHANGED <<hashes_, requests, sends>>
        ELSE IF ec /= success
        THEN /\ complete(ec)
             /\ subscriptions' = subscriptions - 1
             /\ op' = Op("handle_receive", ec, TRUE, message)
             /\ UNCHANGED <<hashes_, requests, sends>>
        ELSE LET merged == merge_headers(hashes_, message, first_height_,
                                         checkpoints_)
             IN  /\ hashes_' = merged.hashes
                 /\ op' = Op("handle_receive", ec, merged.ok, message)
                 /\ IF ~merged.ok
                    THEN /\ complete(previous_block_invalid)
                         /\ subscriptions' = subscriptions - 1
                         /\ UNCHANGED <<requests, sends>>
                    ELSE IF is_full(message)
                    THEN /\ send_get_headers(merged.hashes, 1)
                         /\ no_complete
                    ELSE /\ complete(short_code(merged.hashes, first_height_,
                                                target_height_))
                         /\ subscriptions' = subscriptions - 1
                         /\ UNCHANGED <<requests, sends>>
    /\ timer' = timer
    /\ stop_event' = stop_raised(stop_event)
    /\ UNCHANGED <<block_sync, config, start_size_, target_height_, current_second_,
                   start_height, phase, attempts>>

(* protocol_header_sync::handle_event fired by the stop handler *)
HandleStopEvent ==
    /\ stop_event
    /\ complete(channel_stopped)
    /\ stop_event' = stop_raised(FALSE)
    /\ timer' = timer
    /\ op' = Op("handle_event", channel_stopped, TRUE, <<>>)
    /\ UNCHANGED <<block_sync, hashes_, config, start_size_, target_height_,
                   current_second_, start_height, phase, subscriptions,
                   sends, requests, attempts>>

(* variant: no reset_timer() after a tick that does not evict *)
HandleTimerEvent_not_reset ==
    /\ timer = "armed"
    /\ current_second_ < MaxSecond
    /\ \E ec \in {success, channel_timeout, bad_stream} :
        /\ op' = Op("handle_event", ec, TRUE, <<>>)
        /\ IF ec /= success /\ ec /= channel_timeout
           THEN /\ complete(ec)
                /\ timer' = "off"
                /\ UNCHANGED current_second_
           ELSE /\ current_second_' = current_second_ + 1
                /\ IF below_rate(hashes_, start_size_, current_second_',
                                 minimum_rate_)
                   THEN /\ complete(channel_timeout)
                        /\ timer' = "off"
                   ELSE /\ no_complete
                        /\ timer' = "off"
    /\ stop_event' = stop_raised(stop_event)
    /\ UNCHANGED <<block_sync, hashes_, config, start_size_, target_height_,
                   start_height, phase, subscriptions, sends, requests,
                   attempts>>

(* protocol_header_sync::handle_event fired by the base timer.  It has no  *)
(* stopped() test, and a tick that was pending when the channel stopped    *)
(* still runs it.                                                          *)
HandleTimerEvent ==
    /\ timer = "armed"
    /\ current_second_ < MaxSecond
    /\ \E ec \in {success, channel_timeout, bad_stream} :
        /\ op' = Op("handle_event", ec, TRUE, <<>>)
        /\ IF ec /= success /\ ec /= channel_timeout
           THEN /\ complete(ec)
                /\ timer' = "off"
                /\ UNCHANGED current_second_
           ELSE /\ current_second_' = current_second_ + 1
                /\ IF below_rate(hashes_, start_size_, current_second_',
                                 minimum_rate_)
                   THEN /\ complete(channel_timeout)
                        /\ timer' = "off"
                   ELSE /\ no_complete
                        /\ timer' = "armed"
    /\ stop_event' = stop_raised(stop_event)
    /\ UNCHANGED <<block_sync, hashes_, config, start_size_, target_height_,
                   start_height, phase, subscriptions, sends, requests,
                   attempts>>

(* The peer or the network closes the channel. *)
ChannelStop ==
    /\ phase = "started"
    /\ ~stopped
    /\ stopped' = TRUE
    /\ stop_event' = TRUE
    /\ timer' = timer
    /\ op' = Op("channel_stop", channel_stopped, TRUE, <<>>)
    /\ UNCHANGED <<block_sync, hashes_, config, start_size_, target_height_,
                   current_second_, start_height, phase, cleared, handled,
                   subscriptions, sends, requests, attempts>>

(* protocol_header_sync::rollback applied to the list as it stands; the    *)
(* record keeps the list it was first applied to.                          *)
RollbackStep ==
    /\ op.name \in {"input", "rollback"}
    /\ hashes_' = rollback(hashes_, checkpoints_)
    /\ op' = (IF op.name = "input"
              THEN Op("rollback", success, TRUE, hashes_)
              ELSE Op("rollback_again", success, TRUE, op.message))
    /\ UNCHANGED <<block_sync, config, start_size_, target_height_, current_second_,
                   start_height, phase, stopped, cleared, handled, timer,
                   stop_event, subscriptions, sends, requests, attempts>>

(* dials and channels of the block-sync session in flight *)
InFlight == fetching + connecting + registering + syncing

(* the quorums a node is configured with *)
Quorums == 1..MaxQuorum

(* a block-sync session about to start; no header-sync protocol attached *)
InitSession ==
    /\ first_height_ = 0
    /\ checkpoints_ = <<>>
    /\ minimum_rate_ = 0
    /\ peer_sizes = {}
    /\ hashes_ = <<Digest(0, 0)>>
    /\ op = Op("construct", success, TRUE, <<>>)
    /\ Detached
    /\ votes_ = 0
    /\ quorum \in Quorums
    /\ session = "new"
    /\ session_stopped = FALSE
    /\ fetching = 0
    /\ connecting = 0
    /\ registering = 0
    /\ syncing = 0
    /\ fetched = 0
    /\ connected = 0
    /\ succeeded = 0
    /\ result = <<>>

(* the dial counter stays within its bound *)
Dialable == session_stopped \/ fetched < MaxDials

(* session_block_sync::new_connection *)
new_connection ==
    IF session_stopped
    THEN UNCHANGED <<fetching, fetched>>
    ELSE /\ fetching' = fetching + 1
         /\ fetched' = fetched + 1

no_connection == UNCHANGED <<fetching, fetched>>

(* variant: one success more than the quorum *)
needs_more_than_quorum(ec, votes, q) ==
    ec /= success \/ votes <= q

(* variant: any success is enough *)
needs_more_on_error(ec, votes, q) ==
    ec /= success

(* session_block_sync::handle_complete, the test before new_connection *)
needs_more(ec, votes, q) ==
    ec /= success \/ votes < q

(* variant: every completion is a vote *)
handle_complete_any_vote(ec) ==
    /\ votes_' = votes_ + 1
    /\ (needs_more(ec, votes_', quorum) => Dialable)
    /\ IF needs_more(ec, votes_', quorum)
       THEN /\ new_connection
            /\ result' = result
       ELSE /\ no_connection
            /\ result' = Append(result, success)

(* session_block_sync::handle_complete *)
handle_complete(ec) ==
    /\ votes_' = (IF ec = success THEN votes_ + 1 ELSE votes_)
    /\ (needs_more(ec, votes_', quorum) => Dialable)
    /\ IF needs_more(ec, votes_', quorum)
       THEN /\ new_connection
            /\ result' = result
       ELSE /\ no_connection
            /\ result' = Append(result, success)

(* session_block_sync::start: session::start keeps handle_started to call  *)
(* it later                                                                *)
SessionStart ==
    /\ session = "new"
    /\ session' = "starting"
    /\ op' = Op("session_start", success, TRUE, <<>>)
    /\ UNCHANGED <<header_sync, votes_, quorum, session_stopped, fetching,
                   connecting, registering, syncing, fetched, connected,
                   succeeded, result>>

(* session_block_sync::handle_started *)
HandleStarted ==
    /\ session = "starting"
    /\ \E ec \in {success, operation_failed} :
        /\ op' = Op("handle_started", ec, TRUE, <<>>)
        /\ IF ec /= success
           THEN /\ result' = Append(result, ec)
                /\ session' = "failed"
                /\ no_connection
                /\ votes_' = votes_
           ELSE /\ votes_' = 0
                /\ session' = "started"
                /\ new_connection
                /\ result' = result
    /\ UNCHANGED <<header_sync, quorum, session_stopped, connecting,
                   registering, syncing, connected, succeeded>>

(* session_block_sync::start_syncing, the handler of fetch_address *)
StartSyncing ==
    /\ fetching > 0
    /\ fetching' = fetching - 1
    /\ \E ec \in {success, operation_failed} :
        op' = Op("start_syncing", ec, TRUE, <<>>)
    /\ connecting' = connecting + 1
    /\ connected' = connected + 1
    /\ UNCHANGED <<header_sync, votes_, quorum, session, session_stopped,
                   registering, syncing, fetched, succeeded, result>>

(* session_block_sync::handle_connect *)
HandleConnect ==
    /\ connecting > 0
    /\ connecting' = connecting - 1
    /\ \E ec \in {success, operation_failed} :
        /\ op' = Op("handle_connect", ec, TRUE, <<>>)
        /\ IF ec /= success
           THEN /\ Dialable
                /\ new_connection
                /\ registering' = registering
           ELSE /\ no_connection
                /\ registering' = registering + 1
    /\ UNCHANGED <<header_sync, votes_, quorum, session, session_stopped,
                   syncing, connected, succeeded, result>>

(* variant: no return after handle_complete *)
HandleChannelStart_no_return ==
    /\ registering > 0
    /\ registering' = registering - 1
    /\ \E ec \in {success, operation_failed} :
        /\ op' = Op("handle_channel_start", ec, TRUE, <<>>)
        /\ IF ec /= success
           THEN handle_complete(ec)
           ELSE /\ no_connection
                /\ UNCHANGED <<votes_, result>>
    /\ syncing' = syncing + 1
    /\ UNCHANGED <<header_sync, quorum, session, session_stopped,
                   connecting, connected, succeeded>>

(* session_block_sync::handle_channel_start *)
HandleChannelStart ==
    /\ registering > 0
    /\ registering' = registering - 1
    /\ \E ec \in {success, operation_failed} :
        /\ op' = Op("handle_channel_start", ec, TRUE, <<>>)
        /\ IF ec /= success
           THEN /\ handle_complete(ec)
                /\ syncing' = syncing
           ELSE /\ no_connection
                /\ UNCHANGED <<votes_, result>>
                /\ syncing' = syncing + 1
    /\ UNCHANGED <<header_sync, quorum, session, session_stopped,
                   connecting, connected, succeeded>>

(* session_block_sync::handle_complete as the handler of the block-sync   *)
(* protocol started on the channel                                         *)
HandleComplete ==
    /\ syncing > 0
    /\ syncing' = syncing - 1
    /\ \E ec \in {success, channel_stopped, channel_timeout} :
        /\ op' = Op("handle_complete", ec, TRUE, <<>>)
        /\ handle_complete(ec)
        /\ succeeded' = (IF ec = success THEN succeeded + 1 ELSE succeeded)
    /\ UNCHANGED <<header_sync, quorum, session, session_stopped,
                   connecting, registering, connected>>

(* The node stops the session. *)
SessionStop ==
    /\ session \in {"starting", "started"}
    /\ ~session_stopped
    /\ session_stopped' = TRUE
    /\ op' = Op("session_stop", success, TRUE, <<>>)
    /\ UNCHANGED <<header_sync, votes_, quorum, session, fetching,
                   connecting, registering, syncing, fetched, connected,
                   succeeded, result>>

Next ==
    \/ Attach
    \/ Start
    \/ HandleSend
    \/ HandleReceive
    \/ HandleStopEvent
    \/ HandleTimerEvent
    \/ ChannelStop

Spec == Init /\ [][Next]_vars

SpecFull == InitFull /\ [][Next]_vars

NextRollback == RollbackStep

SpecRollback == InitRollback /\ [][NextRollback]_vars

(* the batches of a peer that answers in full or not at all *)
LiveSizes == {0, full_headers}

(* one peer after another on a list without checkpoints *)
InitLive ==
    /\ first_height_ = 1
    /\ checkpoints_ = <<>>
    /\ minimum_rate_ \in FullRates
    /\ peer_sizes = LiveSizes
    /\ hashes_ = <<Digest(first_height_, 0)>>
    /\ op = Op("init", success, TRUE, <<>>)
    /\ Detached
    /\ NoSession

(* the one-second timer keeps firing while it is armed and the stop        *)
(* subscription fires once the channel has stopped                         *)
SpecLive ==
    /\ InitLive
    /\ [][Next]_vars
    /\ WF_vars(HandleTimerEvent)
    /\ WF_vars(HandleStopEvent)

NextSession ==
    \/ SessionStart
    \/ HandleStarted
    \/ StartSyncing
    \/ HandleConnect
    \/ HandleChannelStart
    \/ HandleComplete
    \/ SessionStop

SpecSession == InitSession /\ [][NextSession]_vars

----------------------------------------------------------------------------
(* Properties. *)

(* the step just taken ran handle_receive on a live channel, without a     *)
(* receive error                                                           *)
Received == op'.name = "handle_receive" /\ op'.ec = success /\ ~stopped

Merged == Received /\ op'.ok

MergeFailed == Received /\ ~op'.ok

Reports(ec) == handled' = Append(handled, ec)

TopHeight(hashes) == first_height_ + Len(hashes) - 1

(* C1: a merged headers response that is not a full batch completes the    *)
(* attempt with success when the list has reached target_height_ and with  *)
(* operation_failed when it has not; no step reports success while the     *)
(* top of the list is below target_height_.                                *)
C1_TargetTermination ==
    [][ /\ (Merged /\ Len(op'.message) < full_headers)
            => Reports(IF TopHeight(hashes_') >= target_height_
                       THEN success ELSE operation_failed)
        /\ Reports(success) => TopHeight(hashes_') >= target_height_ ]_vars

C1_Witness ==
    /\ op.name = "handle_receive"
    /\ handled = <<success>>
    /\ Len(hashes_) > start_size_
    /\ TopHeight(hashes_) = target_height_

(* C2: every checkpoint whose height lies within the list has its hash at  *)
(* that height.                                                            *)
C2_CheckpointConsistency ==
    \A i \in 1..Len(checkpoints_) :
        LET h == checkpoints_[i].height
        IN  (first_height_ <= h /\ h <= TopHeight(hashes_))
                => hashes_[h - first_height_ + 1] = checkpoints_[i].hash

C2_Witness ==
    /\ attempts = 2
    /\ op.name = "handle_receive" /\ op.ok /\ op.message /= <<>>
    /\ \E i \in 1..Len(checkpoints_) :
          /\ checkpoints_[i].height > first_height_ + start_size_ - 1
          /\ checkpoints_[i].height <= TopHeight(hashes_)

(* the header that has digest x *)
HeaderOf(x) == Header((x - 1) \div 2, (x - 1) % 2, first_height_)

(* C3: every element after the first is the hash of a header whose         *)
(* previous_block_hash is the element before it.                           *)
C3_Linkage ==
    \A i \in 1..(Len(hashes_) - 1) :
        /\ HashOf(HeaderOf(hashes_[i + 1])) = hashes_[i + 1]
        /\ HeaderOf(hashes_[i + 1]).previous_block_hash = hashes_[i]

C3_Witness ==
    /\ attempts = 2
    /\ Len(hashes_) >= 4
    /\ Len(hashes_) > start_size_
    /\ start_size_ > 1

(* C4: the list is never empty and keeps its first element; only a failed  *)
(* merge, which rolls back, makes it shorter.                              *)
C4_NeverEmpty ==
    [][ /\ Len(hashes_') >= 1
        /\ hashes_'[1] = hashes_[1]
        /\ ~MergeFailed => Len(hashes_') >= Len(hashes_) ]_vars

C4_Witness ==
    /\ op.name = "handle_receive" /\ ~op.ok
    /\ Len(hashes_) < start_size_
    /\ Len(hashes_) >= 1

CheckpointHashes == {checkpoints_[i].hash : i \in 1..Len(checkpoints_)}

Hashes(elements) == [j \in 1..Len(elements) |-> HashOf(elements[j])]

(* C5 as stated: after a failed merge the list is a prefix of the list as  *)
(* it was before the message.                                              *)
C5_NothingKept ==
    [][ MergeFailed => IsPrefix(hashes_', hashes_) ]_vars

(* C5: a failed merge reports previous_block_invalid and leaves a prefix   *)
(* of the old list followed by the hashes of the message; hashes of the    *)
(* message stay only up to a checkpoint hash among them.                   *)
C5_KeptUpToCheckpoint ==
    [][ MergeFailed =>
          /\ Reports(previous_block_invalid)
          /\ IsPrefix(hashes_', hashes_ \o Hashes(op'.message))
          /\ \/ IsPrefix(hashes_', hashes_)
             \/ Last(hashes_') \in CheckpointHashes ]_vars

C5_Witness ==
    /\ op.name = "handle_receive" /\ ~op.ok
    /\ handled = <<previous_block_invalid>>
    /\ Len(hashes_) > start_size_
    /\ Len(op.message) > Len(hashes_) - start_size_

(* the first position of x in a list that holds it *)
FirstAt(hashes, x) ==
    CHOOSE i \in 1..Len(hashes) :
        hashes[i] = x /\ \A j \in 1..(i - 1) : hashes[j] /= x

Occurring(hashes) ==
    {i \in 1..Len(checkpoints_) :
        \E j \in 1..Len(hashes) : hashes[j] = checkpoints_[i].hash}

(* C6: rollback cuts the list right after the hash of the highest          *)
(* checkpoint whose hash occurs in it, and to its first element when none  *)
(* occurs.                                                                 *)
C6_RollbackPolicy ==
    op.name = "rollback" =>
        LET before == op.message
            found == Occurring(before)
        IN  IF found = {}
            THEN hashes_ = <<before[1]>>
            ELSE \E i \in found :
                    /\ \A k \in found :
                          checkpoints_[k].height <= checkpoints_[i].height
                    /\ hashes_ = SubSeq(before, 1,
                                        FirstAt(before, checkpoints_[i].hash))

C6_Witness ==
    /\ op.name = "rollback"
    /\ Len(checkpoints_) = 2
    /\ Occurring(op.message) = {1, 2}
    /\ Len(hashes_) = 2
    /\ Len(op.message) = 3

(* C7: a second rollback right after a rollback changes nothing.           *)
C7_RollbackIdempotent ==
    [][ op'.name = "rollback_again" => hashes_' = hashes_ ]_vars

C7_Witness ==
    /\ op.name = "rollback_again"
    /\ Len(hashes_) = 2
    /\ Len(op.message) = 3
    /\ checkpoints_ /= <<>>

Ticked == op'.name = "handle_event" /\ op'.ec \in {success, channel_timeout}

(* a tick of an attempt that has not completed *)
RunningTick == Ticked /\ ~cleared

(* C8: the T-th tick of a running attempt completes it with                *)
(* channel_timeout exactly when fewer than minimum_rate_ * T hashes were   *)
(* added since it started; otherwise it reports nothing and re-arms the    *)
(* timer.                                                                  *)
C8_RateGating ==
    [][ RunningTick =>
          /\ current_second_' = current_second_ + 1
          /\ IF Len(hashes_) - start_size_ < minimum_rate_ * current_second_'
             THEN Reports(channel_timeout) /\ timer' = "off"
             ELSE handled' = handled /\ timer' = "armed" ]_vars

C8_Witness ==
    /\ op.name = "handle_event"
    /\ handled = <<channel_timeout>>
    /\ current_second_ = 2
    /\ Len(hashes_) - start_size_ >= full_headers

(* C9: start below the target reports channel_stopped and does nothing     *)
(* else; otherwise it sends one get_headers with the last hash as locator  *)
(* and reports nothing.                                                    *)
C9_StartGate ==
    [][ op'.name = "start" =>
          /\ hashes_' = hashes_
          /\ IF start_height < target_height_
             THEN /\ Reports(channel_stopped)
                  /\ requests' = <<>>
                  /\ timer' = "off"
                  /\ sends' = 0 /\ subscriptions' = 0
             ELSE /\ requests' = <<Last(hashes_)>>
                  /\ handled' = handled ]_vars

C9_Witness ==
    /\ op.name = "start"
    /\ start_height < target_height_
    /\ handled = <<channel_stopped>>
    /\ attempts = 2

Continues ==
    /\ requests' = Append(requests, Last(hashes_'))
    /\ handled' = handled

Completes ==
    /\ requests' = requests
    /\ Len(handled') = Len(handled) + 1

(* C10 as stated: a merged message continues with another get_headers if   *)
(* it holds exactly 2000 headers and completes for every other size.       *)
C10_ExactlyFull ==
    [][ Merged =>
          IF Len(op'.message) = full_headers THEN Continues
          ELSE Completes ]_vars

(* C10: a merged message of at least 2000 headers continues with another   *)
(* get_headers, whose locator is the new last hash, and reports nothing; a *)
(* shorter one completes and sends nothing.                                *)
C10_AtLeastFull ==
    [][ Merged =>
          IF Len(op'.message) >= full_headers THEN Continues
          ELSE Completes ]_vars

C10_Witness ==
    /\ op.name = "handle_receive" /\ op.ok
    /\ Len(op.message) = full_headers
    /\ Len(requests) = 2
    /\ requests[2] = Last(hashes_)
    /\ handled = <<>>

(* C12 as stated: once an attempt has reported a completion its channel is *)
(* stopped.                                                                *)
C12_StoppedAfterCompletion ==
    handled /= <<>> => stopped

(* C13: an attempt passes at most one code to the handler of the session.  *)
C13_CompletesOnce ==
    Len(handled) <= 1

C13_Witness ==
    /\ op.name = "handle_event" /\ op.ec = channel_stopped
    /\ Len(handled) = 1
    /\ handled[1] /= channel_stopped

(* C14: an attempt that has reported its completion no longer changes the  *)
(* list; only the protocol constructed for the next peer does.             *)
C14_OnlyActiveMutates ==
    [][ (handled /= <<>> /\ op'.name /= "construct")
            => hashes_' = hashes_ ]_vars

C14_Witness ==
    /\ op.name = "handle_receive"
    /\ handled = <<channel_timeout>>
    /\ attempts = 2
    /\ Len(hashes_) > 1

(* the step just taken ran a handler on a stopped channel; send_get_headers *)
(* runs inside handle_receive                                              *)
RanStopped ==
    /\ stopped
    /\ op'.name \in {"handle_send", "handle_receive", "handle_event"}

Quiet ==
    /\ hashes_' = hashes_
    /\ current_second_' = current_second_
    /\ requests' = requests
    /\ sends' <= sends
    /\ subscriptions' <= subscriptions
    /\ IF op'.name = "handle_event" /\ op'.ec /= channel_stopped
       THEN timer' /= "armed"
       ELSE timer' = timer

(* C15 as stated: a handler that runs on a stopped channel changes neither *)
(* the list nor current_second_, sends nothing, subscribes to nothing,     *)
(* does not re-arm the timer and reports nothing.                          *)
C15_NoEffectWhenStopped ==
    [][ RanStopped => Quiet /\ handled' = handled ]_vars

Succeeded == handled /= <<>> /\ Last(handled) = success

LastCheckpointHeight == checkpoints_[Len(checkpoints_)].height

(* C19 as stated: the target is the larger of the height the peer          *)
(* advertises and the highest checkpoint height, and a successful attempt  *)
(* has brought the list up to the height its peer advertised.              *)
C19_PeerHeightTarget ==
    /\ phase /= "idle" =>
          target_height_ =
              (IF checkpoints_ = <<>> THEN start_height
               ELSE Max(start_height, LastCheckpointHeight))
    /\ Succeeded => TopHeight(hashes_) >= start_height

(* C19: the target is the larger of the top height of the list when the    *)
(* protocol was constructed and the highest checkpoint height, and a       *)
(* successful attempt has brought the list up to that target.              *)
C19_OwnHeightTarget ==
    /\ phase /= "idle" =>
          target_height_ =
              (IF checkpoints_ = <<>> THEN first_height_ + start_size_ - 1
               ELSE Max(first_height_ + start_size_ - 1,
                        LastCheckpointHeight))
    /\ Succeeded => TopHeight(hashes_) >= target_height_

C19_Witness ==
    /\ Succeeded
    /\ TopHeight(hashes_) < start_height
    /\ target_height_ > first_height_ + start_size_ - 1
    /\ attempts = 2

(* C20: a send failure, a receive error, a timer event with another code,  *)
(* a rate eviction and a short response below the target report exactly    *)
(* that code and remove nothing from the list; only a failed merge does.   *)
C20_OnlyFailedMergeRollsBack ==
    [][ /\ (~stopped /\ op'.name \in {"handle_send", "handle_receive"}
                /\ op'.ec /= success)
            => Reports(op'.ec) /\ hashes_' = hashes_
        /\ (~stopped /\ op'.name = "handle_event"
                /\ op'.ec \notin {success, channel_timeout})
            => Reports(op'.ec) /\ hashes_' = hashes_
        /\ Reports(channel_timeout) => hashes_' = hashes_
        /\ Reports(operation_failed)
            => hashes_' = hashes_ \o Hashes(op'.message)
        /\ ~IsPrefix(hashes_, hashes_') => MergeFailed ]_vars

C20_Witness ==
    /\ op.name = "handle_send"
    /\ handled = <<bad_stream>>
    /\ Len(hashes_) - start_size_ >= full_headers

(* C11: the session reports success exactly when the successful            *)
(* completions of the block-sync protocol reach quorum: not before, once,  *)
(* with nothing left in flight afterwards, and failed attempts leave the   *)
(* count alone.                                                            *)
C11_QuorumTermination ==
    /\ votes_ = succeeded
    /\ succeeded <= quorum
    /\ (succeeded = quorum) <=> (result = <<success>>)
    /\ (session = "started" /\ succeeded < quorum) => result = <<>>
    /\ result = <<success>> => InFlight = 0

C11_Witness ==
    /\ result = <<success>>
    /\ quorum = 2
    /\ fetched >= 3
    /\ op.name = "handle_complete"

(* C16 as stated: before quorum is reached the session can have two or     *)
(* more dials or channels in flight: with one in flight in a running       *)
(* session short of quorum, a step that puts a second one in flight is     *)
(* possible.                                                               *)
C16_ConcurrentDials ==
    (session = "started" /\ ~session_stopped /\ votes_ < quorum
        /\ InFlight = 1 /\ fetched < MaxDials)
      => ENABLED (NextSession /\ InFlight' >= 2)

(* C16, what the code does: the session has at most one dial or channel    *)
(* in flight at any time; no reachable state has two.                      *)
C16_OneInFlight ==
    InFlight <= 1

C16_Witness ==
    /\ InFlight = 1
    /\ fetched >= 2
    /\ votes_ = 1
    /\ quorum = 2
    /\ ~session_stopped

(* the step just taken ended a dial that has to be replaced *)
Redials ==
    /\ ~session_stopped
    /\ votes_ < quorum
    /\ \/ op'.name \in {"handle_connect", "handle_channel_start"}
            /\ op'.ec /= success
       \/ op'.name = "handle_complete"
            /\ (op'.ec /= success \/ votes_' < quorum)

(* C17: before quorum and before the session stops, a failed connect, a    *)
(* failed channel start, a protocol completion with an error and a         *)
(* success that leaves votes below quorum each start exactly one           *)
(* dial; an error leaves votes unchanged.                                  *)
C17_RedialOnEveryEnd ==
    [][ Redials =>
          /\ fetched' = fetched + 1
          /\ fetching' = fetching + 1
          /\ result' = result
          /\ (op'.ec /= success => votes_' = votes_) ]_vars

C17_Witness ==
    /\ op.name = "handle_complete" /\ op.ec = success
    /\ votes_ = 1
    /\ quorum = 2
    /\ fetching = 1
    /\ fetched >= 2

(* C18 as stated: once the session is stopped no address fetch and no      *)
(* connect is initiated.                                                   *)
C18_StopEndsDialing ==
    [][ session_stopped =>
          fetched' = fetched /\ connected' = connected ]_vars

(* C22 as stated: every tick that evaluates current_rate does so with      *)
(* current_second_ at least 1 and with a list no shorter than it was when  *)
(* the attempt was constructed, so neither the division nor the unsigned   *)
(* subtraction goes wrong.                                                 *)
C22_RateWellDefined ==
    [][ Ticked =>
          /\ current_second_' >= 1
          /\ hashes_' = hashes_
          /\ Len(hashes_) >= start_size_
          /\ current_rate(hashes_, start_size_, current_second_')
                 = size_t((Len(hashes_) - start_size_)
                              \div current_second_') ]_vars

(* C23: votes_ is 0 when handle_started has run, never decreases, grows    *)
(* by one exactly on a successful completion of the block-sync protocol    *)
(* (so it equals their number) and never exceeds quorum.                   *)
C23_VotesCountSuccesses ==
    [][ /\ (op'.name = "handle_started" /\ op'.ec = success) => votes_' = 0
        /\ votes_' >= votes_
        /\ votes_' - votes_ =
               (IF op'.name = "handle_complete" /\ op'.ec = success
                THEN 1 ELSE 0)
        /\ votes_' = succeeded'
        /\ votes_' <= quorum ]_vars

C23_Witness ==
    /\ op.name = "handle_complete" /\ op.ec /= success
    /\ votes_ = 1
    /\ succeeded = 1
    /\ quorum = 2
    /\ fetching = 1

(* C21: with minimum_rate_ at least 1 and the ticks delivered, an attempt  *)
(* that passed the start gate reports a completion in the end; the first   *)
(* tick evicts a peer that has added nothing, the T-th tick evicts a peer  *)
(* that has added fewer than minimum_rate_ * T hashes, and with            *)
(* minimum_rate_ 0 no tick evicts.                                         *)
C21_EvictionTerminates ==
    /\ [][ RunningTick =>
             /\ (minimum_rate_ = 0 => handled' = handled)
             /\ (minimum_rate_ >= 1 /\ Len(hashes_) = start_size_
                    => Reports(channel_timeout) /\ current_second_' = 1)
             /\ (Len(hashes_) - start_size_ < minimum_rate_ * current_second_'
                    => Reports(channel_timeout)) ]_vars
    /\ (phase = "started" /\ minimum_rate_ >= 1 /\ handled = <<>>)
           ~> (handled /= <<>>)

C21_Witness ==
    /\ op.name = "handle_event" /\ op.ec = channel_timeout
    /\ handled = <<channel_timeout>>
    /\ minimum_rate_ >= 1
    /\ current_second_ = 2
    /\ Len(hashes_) - start_size_ = full_headers

====
